---- MODULE Spec2Model ----
(***************************************************************************)
(* Model of cs365-bonus/src/main.rs: the adjacency-list Graph store, the   *)
(* lazy-deletion Dijkstra solver find_shortest_path over a BinaryHeap of   *)
(* State values, the parent-pointer reconstruction, and the part of main   *)
(* that selects the endpoints "a" and "z" and prints the result.           *)
(* Vertex indices are 0-based as in the source; a Vec v is a sequence and  *)
(* v[i] of the source is v[i + 1] here.                                    *)
(***************************************************************************)
EXTENDS Integers, Sequences, FiniteSets, TLC

\* ------------------------------------------------------------------ bounds
MaxCost == 2
MaxLines == 2

\* vertex names that the bounded input files draw from
Names == {"a", "b", "z"}

\* Option::None of an Option<usize>; Some(x) is x itself (usize is >= 0)
None == 0 - 1

\* ------------------------------------------------------ input files (parsed)
\* one line `SRC DEST COST` of input.txt, already split and parsed
Lines == Names \X Names \X (0 .. MaxCost)

BoundedInputs == UNION {[1 .. n -> Lines] : n \in 0 .. MaxLines}

Scenario1 == << <<"a", "b", 1>>, <<"b", "z", 2>> >>
Scenario2 == << <<"a", "b", 10>>, <<"a", "c", 1>>, <<"c", "z", 1>>, <<"b", "z", 1>> >>
Scenario3 == << <<"a", "b", 1>>, <<"a", "c", 1>>, <<"b", "z", 1>>, <<"c", "z", 1>> >>
Scenario4 == << <<"a", "b", 1>>, <<"c", "z", 1>> >>
Scenario5 == << <<"a", "z", 5>>, <<"a", "z", 2>>, <<"a", "z", 7>> >>
Scenario6 == << <<"a", "b", 4>>, <<"a", "c", 2>>, <<"c", "b", 1>>, <<"b", "d", 5>>,
                <<"c", "d", 8>>, <<"d", "z", 3>>, <<"c", "z", 10>> >>

Scenarios == {Scenario1, Scenario2, Scenario3, Scenario4, Scenario5, Scenario6}

Inputs == BoundedInputs \cup Scenarios

\* ------------------------------------------------------------ State and Ord
CmpUsize(x, y) == IF x < y THEN "Less" ELSE IF x = y THEN "Equal" ELSE "Greater"

StateCmpTieReversed(self, other) ==
    LET c == CmpUsize(other.cost, self.cost)
    IN  IF c # "Equal" THEN c ELSE CmpUsize(other.position, self.position)

\* impl Ord for State: other.cost.cmp(self.cost).then_with(self.position.cmp(other.position))
StateCmp(self, other) ==
    LET c == CmpUsize(other.cost, self.cost)
    IN  IF c # "Equal" THEN c ELSE CmpUsize(self.position, other.position)

\* ------------------------------------------------------------- BinaryHeap
\* BinaryHeap<State> is a max-heap under Ord; its contents are kept as a
\* sequence and pop removes a greatest element under StateCmp.
HeapPush(h, s) == Append(h, s)

HeapMaxIndex(h) ==
    LET IsMax(i) == \A j \in 1 .. Len(h) : StateCmp(h[i], h[j]) # "Less"
    IN  CHOOSE i \in 1 .. Len(h) : IsMax(i) /\ \A j \in 1 .. (i - 1) : ~IsMax(j)

HeapKeep(h, i) == h

HeapRemove(h, i) == SubSeq(h, 1, i - 1) \o SubSeq(h, i + 1, Len(h))

\* ------------------------------------------------------------------ Graph
GraphNew == [nodes |-> <<>>, list |-> <<>>]

\* nodes.iter().position(|n| n == name)
GetNode(ns, name) ==
    IF \E i \in 1 .. Len(ns) : ns[i] = name
    THEN (CHOOSE i \in 1 .. Len(ns) : ns[i] = name /\ \A j \in 1 .. (i - 1) : ns[j] # name) - 1
    ELSE None

\* nodes.get(i).map(..)
GetNodeName(ns, i) == IF i >= 0 /\ i < Len(ns) THEN ns[i + 1] ELSE "<absent>"

GetOrInsertNodeAlwaysPush(g, name) ==
    [graph |-> [nodes |-> Append(g.nodes, name), list |-> Append(g.list, <<>>)],
     ret |-> Len(g.nodes)]

GetOrInsertNode(g, name) ==
    IF GetNode(g.nodes, name) # None
    THEN [graph |-> g, ret |-> GetNode(g.nodes, name)]
    ELSE [graph |-> [nodes |-> Append(g.nodes, name), list |-> Append(g.list, <<>>)],
          ret |-> Len(g.nodes)]

AddBidirectionalEdge(g, src, dest, c) ==
    LET l1 == [g.list EXCEPT ![src + 1] = Append(@, [node |-> dest, cost |-> c])]
        l2 == [l1 EXCEPT ![dest + 1] = Append(@, [node |-> src, cost |-> c])]
    IN  [nodes |-> g.nodes, list |-> l2]

\* body of the `for line in input.lines()` loop of load_graph
LoadGraphLine(g, line) ==
    LET r1 == GetOrInsertNode(g, line[1])
        r2 == GetOrInsertNode(r1.graph, line[2])
    IN  AddBidirectionalEdge(r2.graph, r1.ret, r2.ret, line[3])

\* ----------------------------------------------------------------- solver
\* distance[position].map_or(false, |distance| cost > distance)
IsStaleOrEqual(d, c) == d # None /\ c >= d

IsStale(d, c) == d # None /\ c > d

\* distance[next.position].map_or(true, |distance| next.cost < distance)
ImprovesOnlyUnknown(d, c) == d = None

Improves(d, c) == d = None \/ c < d

\* the for loop over graph.list[position] of one iteration of the while loop
RECURSIVE RelaxEdges(_, _, _, _)
RelaxEdges(edges, k, st, cur) ==
    IF k > Len(edges) THEN st
    ELSE LET edge == edges[k]
             next == [cost |-> cur.cost + edge.cost, position |-> edge.node]
         IN  IF Improves(st.distance[next.position + 1], next.cost)
             THEN RelaxEdges(edges, k + 1,
                     [heap |-> HeapPush(st.heap, next),
                      distance |-> [st.distance EXCEPT ![next.position + 1] = next.cost],
                      parent |-> [st.parent EXCEPT ![next.position + 1] = cur.position]],
                     cur)
             ELSE RelaxEdges(edges, k + 1, st, cur)

Reverse(s) == [i \in 1 .. Len(s) |-> s[Len(s) + 1 - i]]

\* the value pushed on dist in the reconstruction loop: distance[edge_index]
WalkDistanceOfIndex(d, ei, index) == d[index + 1]

WalkDistance(d, ei, index) == d[ei + 1]

NoResult == [kind |-> "Pending", cost |-> None, path |-> <<>>, distance |-> <<>>]

ResultNone == [kind |-> "None", cost |-> None, path |-> <<>>, distance |-> <<>>]

\* ------------------------------------------------------------------- main
MinNat(x, y) == IF x < y THEN x ELSE y

PathLineNoSkip(res, ns) ==
    LET n == MinNat(Len(res.path), Len(res.distance))
    IN  << [name |-> "a", d |-> 0] >>
        \o [i \in 1 .. n |->
               [name |-> GetNodeName(ns, res.path[i]), d |-> res.distance[i]]]
        \o << [name |-> "z", d |-> res.distance[Len(res.distance)]] >>

\* the items of the printed path line: `a (0) -> `, then the zip of path and
\* distance with the first pair skipped, then `z (<last distance>)`
PathLine(res, ns) ==
    LET n == MinNat(Len(res.path), Len(res.distance))
    IN  << [name |-> "a", d |-> 0] >>
        \o [i \in 1 .. (n - 1) |->
               [name |-> GetNodeName(ns, res.path[i + 1]), d |-> res.distance[i + 1]]]
        \o << [name |-> "z", d |-> res.distance[Len(res.distance)]] >>

\* ------------------------------------------------------------------ state
VARIABLES input, nodes, list, pc, viaMain, start, end, distance, parent, heap,
          popped, cost, edge_index, path, dist, result, out_cost, out_path, stderr

vars == <<input, nodes, list, pc, viaMain, start, end, distance, parent, heap,
          popped, cost, edge_index, path, dist, result, out_cost, out_path, stderr>>

graphVars == <<nodes, list>>
solverVars == <<start, end, distance, parent, heap, popped, cost, edge_index, path, dist, result>>
outVars == <<out_cost, out_path, stderr>>

NoState == [cost |-> None, position |-> None]

Blank ==
    /\ nodes = <<>> /\ list = <<>>
    /\ viaMain = FALSE
    /\ start = None /\ end = None
    /\ distance = <<>> /\ parent = <<>> /\ heap = <<>>
    /\ popped = NoState
    /\ cost = None /\ edge_index = None
    /\ path = <<>> /\ dist = <<>>
    /\ result = NoResult
    /\ out_cost = None /\ out_path = <<>> /\ stderr = ""

Init ==
    /\ input \in Inputs
    /\ pc = "load"
    /\ Blank

\* load_graph: one line of the input
LoadLine ==
    /\ pc = "load" /\ input # <<>>
    /\ LET g == LoadGraphLine([nodes |-> nodes, list |-> list], Head(input))
       IN  nodes' = g.nodes /\ list' = g.list
    /\ input' = Tail(input)
    /\ UNCHANGED <<pc, viaMain, solverVars, outVars>>

\* find_shortest_path, lines 96-104, for a graph with adjacency lists l
Begin(l, s, t) ==
    /\ start' = s /\ end' = t
    /\ distance' = [i \in 1 .. Len(l) |-> IF i = s + 1 THEN 0 ELSE None]
    /\ parent' = [i \in 1 .. Len(l) |-> None]
    /\ heap' = HeapPush(<<>>, [cost |-> 0, position |-> s])
    /\ pc' = "loop"
    /\ UNCHANGED <<popped, cost, edge_index, path, dist, result>>

\* main: the graph is loaded; look up or insert "a" and "z" and call the solver
MainSolve ==
    /\ pc = "load" /\ input = <<>>
    /\ LET ra == GetOrInsertNode([nodes |-> nodes, list |-> list], "a")
           rz == GetOrInsertNode(ra.graph, "z")
       IN  /\ nodes' = rz.graph.nodes /\ list' = rz.graph.list
           /\ Begin(rz.graph.list, ra.ret, rz.ret)
    /\ viaMain' = TRUE
    /\ UNCHANGED <<input, outVars>>

\* a direct call find_shortest_path(&graph, s, t) with in-range s and t
CallSolve ==
    /\ pc = "load" /\ input = <<>>
    /\ \E s \in 0 .. (Len(list) - 1), t \in 0 .. (Len(list) - 1) : Begin(list, s, t)
    /\ UNCHANGED <<input, graphVars, viaMain, outVars>>

\* while let Some(State {cost, position}) = heap.pop(), and the stale check
Pop ==
    /\ pc = "loop" /\ heap # <<>>
    /\ LET i == HeapMaxIndex(heap)
       IN  /\ popped' = heap[i]
           /\ heap' = HeapRemove(heap, i)
           /\ pc' = IF IsStale(distance[heap[i].position + 1], heap[i].cost)
                    THEN "loop" ELSE "relax"
    /\ UNCHANGED <<input, graphVars, viaMain, start, end, distance, parent,
                   cost, edge_index, path, dist, result, outVars>>

\* for edge in graph.list[position].iter() { ... }
Relax ==
    /\ pc = "relax"
    /\ LET st == RelaxEdges(list[popped.position + 1], 1,
                            [heap |-> heap, distance |-> distance, parent |-> parent],
                            popped)
       IN  heap' = st.heap /\ distance' = st.distance /\ parent' = st.parent
    /\ pc' = "loop"
    /\ UNCHANGED <<input, graphVars, viaMain, start, end, popped,
                   cost, edge_index, path, dist, result, outVars>>

\* heap.pop() is None; lines 125-128
LoopExit ==
    /\ pc = "loop" /\ heap = <<>>
    /\ IF distance[end + 1] = None \/ parent[end + 1] = None
       THEN /\ result' = ResultNone
            /\ pc' = "done"
            /\ cost' = distance[end + 1]
            /\ UNCHANGED <<edge_index, path, dist>>
       ELSE /\ cost' = distance[end + 1]
            /\ edge_index' = parent[end + 1]
            /\ path' = << parent[end + 1] >>
            /\ dist' = << distance[end + 1] >>
            /\ pc' = "walk"
            /\ UNCHANGED result
    /\ UNCHANGED <<input, graphVars, viaMain, start, end, distance, parent, heap,
                   popped, outVars>>

\* while let Some(index) = parent[edge_index] { ... }
WalkStep ==
    /\ pc = "walk" /\ parent[edge_index + 1] # None
    /\ LET index == parent[edge_index + 1]
       IN  IF WalkDistance(distance, edge_index, index) = None
           THEN /\ result' = ResultNone /\ pc' = "done"
                /\ path' = Append(path, index)
                /\ UNCHANGED <<dist, edge_index>>
           ELSE /\ path' = Append(path, index)
                /\ dist' = Append(dist, WalkDistance(distance, edge_index, index))
                /\ edge_index' = index
                /\ UNCHANGED <<result, pc>>
    /\ UNCHANGED <<input, graphVars, viaMain, start, end, distance, parent, heap,
                   popped, cost, outVars>>

\* lines 135-144: the last distance, the two reversals and the returned Path
WalkExit ==
    /\ pc = "walk" /\ parent[edge_index + 1] = None
    /\ IF distance[edge_index + 1] = None
       THEN result' = ResultNone /\ UNCHANGED <<path, dist>>
       ELSE /\ dist' = Reverse(Append(dist, distance[edge_index + 1]))
            /\ path' = Reverse(path)
            /\ result' = [kind |-> "Some", cost |-> cost, path |-> path',
                          distance |-> dist']
    /\ pc' = "done"
    /\ UNCHANGED <<input, graphVars, viaMain, start, end, distance, parent, heap,
                   popped, cost, edge_index, outVars>>

\* main, lines 168-184
PrintResult ==
    /\ pc = "done" /\ viaMain
    /\ IF result.kind = "Some"
       THEN /\ out_cost' = result.cost
            /\ out_path' = PathLine(result, nodes)
            /\ UNCHANGED stderr
       ELSE /\ stderr' = "There is no path from 'a' to 'z'."
            /\ UNCHANGED <<out_cost, out_path>>
    /\ pc' = "exit"
    /\ UNCHANGED <<input, graphVars, viaMain, solverVars>>

Next ==
    \/ LoadLine
    \/ MainSolve
    \/ CallSolve
    \/ Pop
    \/ Relax
    \/ LoopExit
    \/ WalkStep
    \/ WalkExit
    \/ PrintResult

Spec == Init /\ [][Next]_vars

\* the program is sequential: once the solver is entered every step is taken
FairSpec == Spec /\ WF_vars(Pop \/ Relax \/ LoopExit \/ WalkStep \/ WalkExit \/ PrintResult)

\* --------------------------------------------- the graph store on its own
InitGraph ==
    /\ input = <<>>
    /\ pc = "build"
    /\ Blank

EdgeEntries(l) ==
    LET RECURSIVE Sum(_)
        Sum(k) == IF k = 0 THEN 0 ELSE Len(l[k]) + Sum(k - 1)
    IN  Sum(Len(l))

CallGetOrInsertNode ==
    /\ pc = "build"
    /\ \E name \in Names :
          LET r == GetOrInsertNode([nodes |-> nodes, list |-> list], name)
          IN  nodes' = r.graph.nodes /\ list' = r.graph.list
    /\ UNCHANGED <<input, pc, viaMain, solverVars, outVars>>

CallAddBidirectionalEdge ==
    /\ pc = "build"
    /\ EdgeEntries(list) < 2 * MaxLines
    /\ \E src \in 0 .. (Len(nodes) - 1), dest \in 0 .. (Len(nodes) - 1), c \in 0 .. MaxCost :
          LET g == AddBidirectionalEdge([nodes |-> nodes, list |-> list], src, dest, c)
          IN  nodes' = g.nodes /\ list' = g.list
    /\ UNCHANGED <<input, pc, viaMain, solverVars, outVars>>

NextGraph == CallGetOrInsertNode \/ CallAddBidirectionalEdge

SpecGraph == InitGraph /\ [][NextGraph]_vars

\* ------------------------------------------------- reference definitions
\* Bellman-Ford over the adjacency entries of l: one round of relaxation
BFRound(l, d) ==
    [v \in 1 .. Len(l) |->
        LET cands == UNION {{d[u] + l[u][j].cost :
                                j \in {j2 \in 1 .. Len(l[u]) : l[u][j2].node = v - 1}} :
                             u \in {u2 \in 1 .. Len(l) : d[u2] # None}}
                     \cup (IF d[v] # None THEN {d[v]} ELSE {})
        IN  IF cands = {} THEN None
            ELSE CHOOSE m \in cands : \A x \in cands : m <= x]

RECURSIVE BFIterate(_, _, _)
BFIterate(l, d, k) == IF k = 0 THEN d ELSE BFIterate(l, BFRound(l, d), k - 1)

\* minimum cost of a walk from s to every vertex (None: no walk)
RefDistance(l, s) ==
    BFIterate(l, [i \in 1 .. Len(l) |-> IF i = s + 1 THEN 0 ELSE None], Len(l))

HasEdge(l, u, v, c) == \E j \in 1 .. Len(l[u + 1]) : l[u + 1][j].node = v /\ l[u + 1][j].cost = c

Returned == pc \in {"done", "exit"}

RECURSIVE LoadGraph(_, _)
LoadGraph(g, in) == IF in = <<>> THEN g ELSE LoadGraph(LoadGraphLine(g, Head(in)), Tail(in))

MeshGraph == LoadGraph(GraphNew, Scenario6)

\* ----------------------------------------------------------------- claims

\* C1: whenever find_shortest_path returns a path result, its cost is the
\* minimum total cost over all walks from the source to the target.
C1_Optimality ==
    (Returned /\ result.kind = "Some") => result.cost = RefDistance(list, start)[end + 1]

\* a returned cost that beats a direct edge from the source to the target
C1_Witness ==
    /\ pc = "done" /\ result.kind = "Some"
    /\ \E j \in 1 .. Len(list[start + 1]) :
          list[start + 1][j].node = end /\ list[start + 1][j].cost > result.cost

\* C2: every returned path result has first index = source, last index =
\* target, first distance = 0 and last distance = cost.
C2_Endpoints ==
    (Returned /\ result.kind = "Some") =>
        /\ result.path[1] = start
        /\ result.path[Len(result.path)] = end
        /\ result.distance[1] = 0
        /\ result.distance[Len(result.distance)] = result.cost

\* C3: with source = target the solver returns the path [s] with cost 0 and
\* distance sequence [0].
C3_SameVertex ==
    (Returned /\ start = end) =>
        /\ result.kind = "Some"
        /\ result.path = << start >>
        /\ result.cost = 0
        /\ result.distance = << 0 >>

\* C4: for source # target the solver returns "no path" exactly when no walk
\* leads from the source to the target.
C4_NoPathIffUnreachable ==
    (Returned /\ start # end) =>
        /\ result.kind \in {"None", "Some"}
        /\ (result.kind = "None") <=> (RefDistance(list, start)[end + 1] = None)

\* the source has edges, yet the target is unreachable and None is returned
C4_Witness ==
    /\ pc = "done" /\ start # end /\ result.kind = "None"
    /\ list[start + 1] # <<>> /\ list[end + 1] # <<>>

\* C5: the distance sequence has the length of the index sequence and
\* distance[i] is the final shortest distance of path[i] at every position.
C5_Aligned ==
    (Returned /\ result.kind = "Some") =>
        /\ Len(result.distance) = Len(result.path)
        /\ \A i \in 1 .. Len(result.path) : result.distance[i] = distance[result.path[i] + 1]

\* C6: consecutive vertices of the returned index sequence are joined by an
\* adjacency entry whose cost is the difference of their distances.
C6_Feasible ==
    (Returned /\ result.kind = "Some") =>
        \A i \in 1 .. (Len(result.path) - 1) :
            HasEdge(list, result.path[i], result.path[i + 1],
                    result.distance[i + 1] - result.distance[i])

\* a returned index sequence with a step of positive cost
C6_Witness ==
    /\ pc = "done" /\ result.kind = "Some"
    /\ Len(result.path) >= 2
    /\ result.distance[2] > result.distance[1]

\* C7: the printed path line goes from `a (0)` to `z (<cost>)`, names every
\* vertex of one minimum-cost a-to-z walk once with its cumulative distance;
\* the five-node mesh prints a (0) -> c (2) -> b (3) -> d (8) -> z (11).
C7_PrintedLine ==
    (pc = "exit" /\ result.kind = "Some") =>
        LET n == Len(out_path)
            idx(i) == GetNode(nodes, out_path[i].name)
        IN  /\ n >= 2
            /\ out_path[1] = [name |-> "a", d |-> 0]
            /\ out_path[n] = [name |-> "z", d |-> out_cost]
            /\ \A i, j \in 1 .. n : i # j => out_path[i].name # out_path[j].name
            /\ \A i \in 1 .. (n - 1) :
                  /\ idx(i) # None /\ idx(i + 1) # None
                  /\ HasEdge(list, idx(i), idx(i + 1), out_path[i + 1].d - out_path[i].d)
            /\ out_cost = RefDistance(list, GetNode(nodes, "a"))[GetNode(nodes, "z") + 1]
            /\ (nodes = MeshGraph.nodes /\ list = MeshGraph.list) =>
                  /\ out_cost = 11
                  /\ out_path = << [name |-> "a", d |-> 0], [name |-> "c", d |-> 2],
                                   [name |-> "b", d |-> 3], [name |-> "d", d |-> 8],
                                   [name |-> "z", d |-> 11] >>

\* the five-node mesh has been solved and printed
C7_Witness ==
    /\ pc = "exit" /\ result.kind = "Some"
    /\ nodes = MeshGraph.nodes /\ list = MeshGraph.list
    /\ Len(out_path) = 5

GraphInv ==
    /\ Len(nodes) = Len(list)
    /\ \A u \in 1 .. Len(list) : \A j \in 1 .. Len(list[u]) :
          list[u][j].node >= 0 /\ list[u][j].node < Len(nodes)
    /\ \A i, j \in 1 .. Len(nodes) : i # j => nodes[i] # nodes[j]

IndexStable ==
    \A name \in Names : GetNode(nodes, name) # None => GetNode(nodes', name) = GetNode(nodes, name)

\* C8: after any sequence of get_or_insert_node and add_bidirectional_edge
\* calls on returned indices, names and adjacency lists have equal length,
\* every neighbor index is in range, no name occurs twice, and the index of
\* an inserted name never changes.
C8_GraphStore == [](GraphInv) /\ [][IndexStable]_vars

\* three vertices, a self-loop and an edge between two vertices
C8_Witness ==
    /\ pc = "build" /\ Len(nodes) = 3
    /\ \E u \in 1 .. Len(list) : \E j \in 1 .. Len(list[u]) : list[u][j].node = u - 1
    /\ \E u \in 1 .. Len(list) : \E j \in 1 .. Len(list[u]) : list[u][j].node # u - 1

PopStep == pc = "loop" /\ heap # <<>>

\* C9 (as stated): every pop removes an entry of smallest cost and, among
\* the entries of that cost, the one of smallest position.
C9_PopSmallestPosition ==
    [][PopStep =>
         \A i \in 1 .. Len(heap) :
            \/ popped'.cost < heap[i].cost
            \/ popped'.cost = heap[i].cost /\ popped'.position <= heap[i].position]_vars

\* C9 (amended): every pop removes an entry of smallest cost and, among the
\* entries of that cost, the one of largest position.
C9_PopLargestPosition ==
    [][PopStep =>
         \A i \in 1 .. Len(heap) :
            \/ popped'.cost < heap[i].cost
            \/ popped'.cost = heap[i].cost /\ popped'.position >= heap[i].position]_vars

\* an entry was popped while another entry of the same cost stayed behind
C9_Witness ==
    /\ pc = "relax"
    /\ \E i \in 1 .. Len(heap) :
          heap[i].cost = popped.cost /\ heap[i].position # popped.position

RECURSIVE ParentChainEnds(_, _)
ParentChainEnds(v, k) ==
    IF parent[v + 1] = None THEN TRUE
    ELSE IF k = 0 THEN FALSE
    ELSE ParentChainEnds(parent[v + 1], k - 1)

ParentAcyclic == \A v \in 0 .. (Len(parent) - 1) : ParentChainEnds(v, Len(parent))

\* C10: every call of the solver completes: the heap drains, the walk over
\* the parent pointers ends, and the parent pointers never form a cycle.
C10_Terminates == ((pc = "loop") ~> (pc = "done")) /\ [](ParentAcyclic)

\* a completed solve whose parent walk took a step over a zero-cost edge
C10_Witness ==
    /\ pc = "done" /\ result.kind = "Some"
    /\ Len(result.path) >= 2
    /\ HasEdge(list, result.path[1], result.path[2], 0)
    /\ result.cost = 0
====
